---- MODULE Spec2Model ----
(***************************************************************************)
(* Model of elgato.py: the light registry (global `lights` and the config  *)
(* file), the reference resolver get_lights, and the discovery session     *)
(* find_lights with its ElgatoListener callback.                           *)
(*                                                                         *)
(* Text (tokens, names, locations) is modelled as sequences of one         *)
(* character strings so that split / int() / ip_address() / str() are      *)
(* computed the way the Python code computes them.                         *)
(***************************************************************************)
EXTENDS Integers, Sequences, FiniteSets, TLC

(***************************************************************************)
(* Bounds of the model.                                                    *)
(***************************************************************************)
MaxLights == 2      \* longest registry stored in the config file
MaxRefs == 2        \* most --light options on one command line
MaxAdverts == 2     \* most advertisements delivered in one discovery session
MaxWindows == 4     \* most wait windows an interactive session is followed for

(***************************************************************************)
(* Program constants.                                                      *)
(***************************************************************************)
default_port == 9123
MaxTries == 3

(***************************************************************************)
(* Text helpers.                                                           *)
(***************************************************************************)
DigitChars == <<"0", "1", "2", "3", "4", "5", "6", "7", "8", "9">>
HexChars == <<"0", "1", "2", "3", "4", "5", "6", "7", "8", "9",
              "a", "b", "c", "d", "e", "f">>

IsDigit(c) == \E k \in 1..10 : DigitChars[k] = c
DigitVal(c) == (CHOOSE k \in 1..10 : DigitChars[k] = c) - 1
IsHex(c) == \E k \in 1..16 : HexChars[k] = c
HexVal(c) == (CHOOSE k \in 1..16 : HexChars[k] = c) - 1

Contains(s, c) == \E k \in 1..Len(s) : s[k] = c
FirstIndex(s, c) == CHOOSE k \in 1..Len(s) : s[k] = c /\ \A j \in 1..(k - 1) : s[j] # c

\* str.split(sep): every separator splits, empty pieces are kept
RECURSIVE Split(_, _)
Split(s, sep) ==
    IF ~Contains(s, sep) THEN <<s>>
    ELSE LET k == FirstIndex(s, sep)
         IN <<SubSeq(s, 1, k - 1)>> \o Split(SubSeq(s, k + 1, Len(s)), sep)

\* str.split(sep, 1): split on the first separator only
Split1(s, sep) ==
    LET k == FirstIndex(s, sep)
    IN <<SubSeq(s, 1, k - 1), SubSeq(s, k + 1, Len(s))>>

RECURSIVE Join(_, _)
Join(parts, sep) ==
    IF Len(parts) = 0 THEN <<>>
    ELSE IF Len(parts) = 1 THEN parts[1]
    ELSE parts[1] \o <<sep>> \o Join(Tail(parts), sep)

RECURSIVE DecVal(_)
DecVal(s) == IF Len(s) = 0 THEN 0 ELSE 10 * DecVal(SubSeq(s, 1, Len(s) - 1)) + DigitVal(s[Len(s)])

RECURSIVE HexNum(_)
HexNum(s) == IF Len(s) = 0 THEN 0 ELSE 16 * HexNum(SubSeq(s, 1, Len(s) - 1)) + HexVal(s[Len(s)])

AllDigits(s) == Len(s) > 0 /\ \A k \in 1..Len(s) : IsDigit(s[k])

\* int(text): optional sign, then decimal digits; anything else raises ValueError
IntParse(s) ==
    LET body == IF Len(s) > 0 /\ s[1] \in {"+", "-"} THEN Tail(s) ELSE s
    IN IF AllDigits(body)
       THEN [ok |-> TRUE, val |-> IF Len(s) > 0 /\ s[1] = "-" THEN 0 - DecVal(body) ELSE DecVal(body)]
       ELSE [ok |-> FALSE, val |-> 0]

\* str(n) for an integer n
RECURSIVE NatToStr(_)
NatToStr(n) == IF n < 10 THEN <<DigitChars[n + 1]>> ELSE NatToStr(n \div 10) \o <<DigitChars[(n % 10) + 1]>>
IntToStr(n) == IF n < 0 THEN <<"-">> \o NatToStr(0 - n) ELSE NatToStr(n)

RECURSIVE HexToStr(_)
HexToStr(n) == IF n < 16 THEN <<HexChars[n + 1]>> ELSE HexToStr(n \div 16) \o <<HexChars[(n % 16) + 1]>>

(***************************************************************************)
(* ipaddress.ip_address(text) and str() of its result.                     *)
(***************************************************************************)
IPv4Octet(o) ==
    /\ AllDigits(o)
    /\ Len(o) <= 3
    /\ ~(Len(o) > 1 /\ o[1] = "0")
    /\ DecVal(o) <= 255

IPv4Parse(s) ==
    LET octets == Split(s, ".")
    IN IF Len(octets) = 4 /\ \A k \in 1..4 : IPv4Octet(octets[k])
       THEN [ok |-> TRUE, version |-> 4, words |-> [k \in 1..4 |-> DecVal(octets[k])]]
       ELSE [ok |-> FALSE, version |-> 0, words |-> <<>>]

IPv6Hextet(h) == Len(h) > 0 /\ Len(h) <= 4 /\ \A k \in 1..Len(h) : IsHex(h[k])

RECURSIVE Zeros(_)
Zeros(n) == IF n <= 0 THEN <<>> ELSE <<0>> \o Zeros(n - 1)

IPv6Parse(s) ==
    LET parts == Split(s, ":")
        n == Len(parts)
        bad == [ok |-> FALSE, version |-> 0, words |-> <<>>]
        skips == {k \in 2..(n - 1) : Len(parts[k]) = 0}
    IN IF n < 3 \/ n > 9 \/ Cardinality(skips) > 1 THEN bad
       ELSE IF skips = {}
       THEN IF n = 8 /\ \A k \in 1..8 : IPv6Hextet(parts[k])
            THEN [ok |-> TRUE, version |-> 6, words |-> [k \in 1..8 |-> HexNum(parts[k])]]
            ELSE bad
       ELSE LET skip == CHOOSE k \in skips : TRUE
                hi0 == skip - 1
                lo0 == n - skip
                hi == IF Len(parts[1]) = 0 THEN hi0 - 1 ELSE hi0
                lo == IF Len(parts[n]) = 0 THEN lo0 - 1 ELSE lo0
                hiParts == SubSeq(parts, 1, hi)
                loParts == SubSeq(parts, n - lo + 1, n)
            IN IF (Len(parts[1]) = 0 /\ hi # 0) \/ (Len(parts[n]) = 0 /\ lo # 0)
                  \/ 8 - (hi + lo) < 1
                  \/ (\E k \in 1..hi : ~IPv6Hextet(hiParts[k]))
                  \/ (\E j \in 1..lo : ~IPv6Hextet(loParts[j]))
               THEN bad
               ELSE [ok |-> TRUE, version |-> 6,
                     words |-> [k \in 1..hi |-> HexNum(hiParts[k])]
                               \o Zeros(8 - (hi + lo))
                               \o [k \in 1..lo |-> HexNum(loParts[k])]]

ip_address(s) ==
    IF IPv4Parse(s).ok THEN IPv4Parse(s) ELSE IPv6Parse(s)

\* the longest run of zero hextets (first one wins, runs of one are not compressed)
ZeroRun(w, k) == CHOOSE m \in 0..8 : /\ \A j \in k..(k + m - 1) : j <= 8 /\ w[j] = 0
                                     /\ (k + m > 8 \/ w[k + m] # 0)
BestRunStart(w) ==
    LET best == CHOOSE m \in 0..8 : /\ \E k \in 1..8 : ZeroRun(w, k) = m
                                    /\ \A k \in 1..8 : ZeroRun(w, k) <= m
    IN IF best < 2 THEN 0
       ELSE CHOOSE k \in 1..8 : ZeroRun(w, k) = best /\ \A j \in 1..(k - 1) : ZeroRun(w, j) < best

ip_str(ip) ==
    IF ip.version = 4
    THEN Join([k \in 1..4 |-> NatToStr(ip.words[k])], ".")
    ELSE LET w == ip.words
             b == BestRunStart(w)
             hx == [k \in 1..8 |-> HexToStr(w[k])]
         IN IF b = 0 THEN Join(hx, ":")
            ELSE LET e == b + ZeroRun(w, b)
                 IN Join(SubSeq(hx, 1, b - 1), ":") \o <<":", ":">> \o Join(SubSeq(hx, e, 8), ":")

(***************************************************************************)
(* Light objects, the config file and its JSON mapping.                    *)
(***************************************************************************)
Light(name, location) == [name |-> name, location |-> location]

\* what the config file can hold: nothing readable, text that is not JSON,
\* or a JSON list of {"name": ..., "light": ...} objects
NoFile == [kind |-> "missing", entries |-> <<>>]
BadFile == [kind |-> "garbage", entries |-> <<>>]
ListFile(entries) == [kind |-> "list", entries |-> entries]

light_to_json(obj) == [name |-> obj.name, light |-> obj.location]
\* isinstance( obj, Light ): a plain JSON object never has the key "location" here
IsLight(obj) == DOMAIN obj = {"name", "location"}

\* variant: the two fields are read back the wrong way round
light_from_json_swapped(dct) ==
    IF "light" \in DOMAIN dct THEN Light(dct.light, dct.name) ELSE dct

\* object_hook: a dict with the key 'light' becomes a Light, any other dict passes
light_from_json(dct) ==
    IF "light" \in DOMAIN dct THEN Light(dct.name, dct.light) ELSE dct

\* variant: the file is opened for appending
SaveLights_append(old, found) ==
    ListFile(old.entries \o [k \in 1..Len(found) |-> light_to_json(found[k])])

\* open( config_file, "w" ) and f.write( json.dumps( listener.lights, ... ) ):
\* mode "w" drops the old content
SaveLights(old, found) == ListFile([k \in 1..Len(found) |-> light_to_json(found[k])])

\* maybe_load_lights_from_config: only loads when the global is empty, and
\* any failure of open/json.load (a KeyError of dct['name'] in the hook
\* included) leaves the global as it was
maybe_load_lights_from_config(cur, f) ==
    IF cur # <<>> THEN cur
    ELSE IF f.kind # "list" THEN cur
    ELSE IF \E k \in 1..Len(f.entries) :
               "light" \in DOMAIN f.entries[k] /\ "name" \notin DOMAIN f.entries[k]
    THEN cur
    ELSE [k \in 1..Len(f.entries) |-> light_from_json(f.entries[k])]

(***************************************************************************)
(* Reference resolution (get_lights with requested lights).                *)
(***************************************************************************)
\* variant: the upper end of the range is excluded
is_light_number_strict(light_number, regs) ==
    LET n == IntParse(light_number)
    IN IF ~n.ok THEN FALSE
       ELSE Len(regs) > n.val /\ n.val > 0

is_light_number(light_number, regs) ==
    LET n == IntParse(light_number)
    IN IF ~n.ok THEN FALSE
       ELSE Len(regs) >= n.val /\ n.val > 0

\* variant: an omitted port is not filled with the default port
ParseAddress_noDefault(light) ==
    LET hasColon == Contains(light, ":")
        ip == IF hasColon THEN Split1(light, ":")[1] ELSE light
        port == IF hasColon THEN Split1(light, ":")[2] ELSE <<>>
        addr == ip_address(ip)
    IN IF ~addr.ok THEN [status |-> "InvalidAddress", light |-> Light(<<>>, <<>>)]
       ELSE IF port = <<>>
       THEN [status |-> "ok", light |-> Light(light, ip_str(addr))]
       ELSE IF ~IntParse(port).ok THEN [status |-> "InvalidPort", light |-> Light(<<>>, <<>>)]
       ELSE [status |-> "ok",
             light |-> Light(light, Join(<<ip_str(addr), IntToStr(IntParse(port).val)>>, ":"))]

\* variant: the ValueError of int( port ) reaches the handler of the address error
ParseAddress_portValueError(light) ==
    LET hasColon == Contains(light, ":")
        ip == IF hasColon THEN Split1(light, ":")[1] ELSE light
        port == IF hasColon THEN Split1(light, ":")[2] ELSE <<>>
        addr == ip_address(ip)
    IN IF ~addr.ok THEN [status |-> "InvalidAddress", light |-> Light(<<>>, <<>>)]
       ELSE IF port = <<>>
       THEN [status |-> "ok",
             light |-> Light(light, Join(<<ip_str(addr), IntToStr(default_port)>>, ":"))]
       ELSE IF ~IntParse(port).ok THEN [status |-> "InvalidAddress", light |-> Light(<<>>, <<>>)]
       ELSE [status |-> "ok",
             light |-> Light(light, Join(<<ip_str(addr), IntToStr(IntParse(port).val)>>, ":"))]

\* the else branch of the loop body: parse one token as IP or IP:PORT
ParseAddress(light) ==
    LET hasColon == Contains(light, ":")
        ip == IF hasColon THEN Split1(light, ":")[1] ELSE light
        port == IF hasColon THEN Split1(light, ":")[2] ELSE <<>>
        addr == ip_address(ip)
    IN IF ~addr.ok THEN [status |-> "InvalidAddress", light |-> Light(<<>>, <<>>)]
       ELSE IF port = <<>>
       THEN [status |-> "ok",
             light |-> Light(light, Join(<<ip_str(addr), IntToStr(default_port)>>, ":"))]
       ELSE IF ~IntParse(port).ok THEN [status |-> "InvalidPort", light |-> Light(<<>>, <<>>)]
       ELSE [status |-> "ok",
             light |-> Light(light, Join(<<ip_str(addr), IntToStr(IntParse(port).val)>>, ":"))]

\* seq[idx] with Python's 0-based index, negative idx counting from the end
PyIndex(seq, idx) == IF idx >= 0 THEN seq[idx + 1] ELSE seq[Len(seq) + idx + 1]

\* one iteration of the loop over requested_lights
TokenOutcome(light, regs) ==
    IF is_light_number(light, regs)
    THEN [status |-> "ok", light |-> PyIndex(regs, IntParse(light).val - 1)]
    ELSE ParseAddress(light)

(***************************************************************************)
(* Discovery (find_lights and ElgatoListener).                             *)
(***************************************************************************)
\* socket.inet_ntoa(info.addresses[0]) + ':' + str(info.port)
AdvertLocation(dev) ==
    Join([k \in 1..4 |-> NatToStr(dev.addr[k])], ".") \o <<":">> \o IntToStr(dev.port)

\* variant: gives up one try early
NonInteractiveDone_early(found, tries) == Len(found) > 0 \/ tries >= MaxTries - 1

\* the break condition of the non-interactive branch
NonInteractiveDone(found, tries) == Len(found) > 0 \/ tries >= MaxTries

UpperChars == <<"Y", "E", "S", "N", "O">>
LowerChars == <<"y", "e", "s", "n", "o">>
LowerChar(c) == IF \E k \in 1..5 : UpperChars[k] = c
                THEN LowerChars[CHOOSE k \in 1..5 : UpperChars[k] = c]
                ELSE c
Lower(t) == [k \in 1..Len(t) |-> LowerChar(t[k])]

\* variant: the answer is compared as typed, without .lower()
InteractiveDone_asTyped(answer) ==
    answer \in {<<"y", "e", "s">>, <<"y">>, <<"y", "e">>, <<>>}

\* the break condition of the interactive branch
InteractiveDone(answer) ==
    Lower(answer) \in {<<"y", "e", "s">>, <<"y">>, <<"y", "e">>, <<>>}

(***************************************************************************)
(* Inputs the model draws from.                                            *)
(***************************************************************************)
DeskName == <<"D", "e", "s", "k">>
LampName == <<"L", "a", "m", "p">>
DeskDevice == [addr |-> <<10, 0, 0, 5>>, port |-> 9123, displayName |-> DeskName]
LampDevice == [addr |-> <<1, 2, 3, 4>>, port |-> 9123, displayName |-> LampName]
\* dict.get( "displayName" ) of an accessory-info answer without that key
None == <<"None">>

\* a device whose accessory-info answer carries no displayName
MuteDevice == [addr |-> <<10, 0, 0, 6>>, port |-> 9123, displayName |-> None]

\* the devices that advertise themselves while a session listens (the Lamp
\* of an earlier run is unplugged)
Devices == {DeskDevice, MuteDevice}

\* entries a config file written by an earlier run can hold
StoredEntries ==
    {light_to_json(Light(d.displayName, AdvertLocation(d))) : d \in {DeskDevice, LampDevice}}

RECURSIVE SeqsUpTo(_, _)
SeqsUpTo(S, n) ==
    IF n = 0 THEN {<<>>}
    ELSE SeqsUpTo(S, n - 1) \cup {Append(q, x) : q \in {r \in SeqsUpTo(S, n - 1) : Len(r) = n - 1}, x \in S}

\* a file somebody edited by hand: [{"name": "Desk"}]
NamesOnlyFile == ListFile(<<[name |-> DeskName]>>)

\* another one: [{"name": "Desk", "light": "desk"}]
HostNameFile == ListFile(<<[name |-> DeskName, light |-> <<"d", "e", "s", "k">>]>>)

Files ==
    {NoFile, BadFile, NamesOnlyFile, HostNameFile}
    \cup {ListFile(e) : e \in SeqsUpTo(StoredEntries, MaxLights)}

\* --light tokens:
\*   0
\*   1
\*   2
\*   3
\*   -1
\*   1.2.3.4
\*   10.0.0.5:9123
\*   1.2.3.4:080
\*   1.2.3.4:x
\*   1.2.3.4:-1
\*   999.9.9.9
\*   ::1:80
Tokens ==
    { <<"0">>,
      <<"1">>,
      <<"2">>,
      <<"3">>,
      <<"-", "1">>,
      <<"1", ".", "2", ".", "3", ".", "4">>,
      <<"1", "0", ".", "0", ".", "0", ".", "5", ":", "9", "1", "2", "3">>,
      <<"1", ".", "2", ".", "3", ".", "4", ":", "0", "8", "0">>,
      <<"1", ".", "2", ".", "3", ".", "4", ":", "x">>,
      <<"1", ".", "2", ".", "3", ".", "4", ":", "-", "1">>,
      <<"9", "9", "9", ".", "9", ".", "9", ".", "9">>,
      <<":", ":", "1", ":", "8", "0">> }

\* what the operator can type at the "is that all of them? [Y/n]" prompt
Answers ==
    { <<>>,
      <<"y">>,
      <<"Y">>,
      <<"y", "e">>,
      <<"y", "e", "s">>,
      <<"Y", "E", "S">>,
      <<"n">>,
      <<"n", "o">> }

Commands == {"list", "on", "find"}

\* the values of --light a command line can carry
TokenLists == SeqsUpTo(Tokens, MaxRefs)

(***************************************************************************)
(* State.                                                                  *)
(***************************************************************************)
\* A request to the light is the record of its 'brightness' and
\* 'temperature' fields, each <<>> when the key is not in the request or
\* <<v>> when it is; this one stands for "no request sent".
NoPut == [brightness |-> <<>>, temperature |-> <<>>]

VARIABLES
    file,             \* content of config_file
    file0,            \* content of config_file when this process started
    lights,           \* the global `lights`
    cmd,              \* the command of this invocation
    tokens,           \* args['lights'] as given on the command line
    resolved,         \* the items of requested_lights already replaced by Light objects
    pc,               \* position of the main thread
    result,           \* what get_lights / find_lights returned
    errors,           \* error lines printed by exit_with_help
    exit_code,        \* process exit status (-1 while running)
    sent,             \* locations a device request was issued to, in order
    listed,           \* lines printed by command_list
    interactive,      \* argument of the running find_lights
    zc,               \* the Zeroconf instance: "none", "open" or "closed"
    listener_lights,  \* ElgatoListener.lights
    count,            \* loop counter of find_lights
    queue,            \* advertisements waiting for add_service to be free
    inflight,         \* the advertisement add_service is working on (<<>> or <<dev>>)
    browser_alive,    \* the browser thread still runs callbacks
    heard,            \* number of advertisements received in this session
    first_heard,      \* loop count during which the first one was received (0: none yet)
    windows,          \* number of wait windows that have ended
    polled,           \* len( listener.lights ) as read at the end of the last window
    sessions,         \* number of find_lights calls in this process
    releases,         \* number of zeroconf.close() calls in this process
    raised,           \* an exception is propagating out of the wait loop
    answered,         \* what the operator typed at the last prompt of this session
    failed,           \* number of add_service calls of this session that raised
    brightness,       \* the brightness the light at hand is set to
    put               \* what the last brightness/temperature command sent to that light

vars == <<file, file0, lights, cmd, tokens, resolved, pc, result, errors, exit_code,
          sent, listed, interactive, zc, listener_lights, count, queue, inflight,
          browser_alive, heard, first_heard, windows, polled, sessions, releases, raised,
          answered, failed, brightness, put>>

\* the light on the desk and the last request made to it
lightVars == <<brightness, put>>

discoveryVars == <<interactive, zc, listener_lights, count, queue, inflight,
                   browser_alive, heard, first_heard, windows, polled, sessions, releases, raised,
                   answered, failed>>
outputVars == <<errors, exit_code, sent, listed>>

\* the globals of a fresh process right after argument parsing
Launch(f, c, t) ==
    /\ file' = f
    /\ file0' = f
    /\ lights' = <<>>
    /\ cmd' = c
    /\ tokens' = t
    /\ resolved' = <<>>
    /\ pc' = IF c = "none" THEN "shell" ELSE "main"
    /\ result' = <<>>
    /\ errors' = <<>>
    /\ exit_code' = -1
    /\ sent' = <<>>
    /\ listed' = <<>>
    /\ interactive' = FALSE
    /\ zc' = "none"
    /\ listener_lights' = <<>>
    /\ count' = 0
    /\ queue' = <<>>
    /\ inflight' = <<>>
    /\ browser_alive' = FALSE
    /\ heard' = 0
    /\ first_heard' = 0
    /\ windows' = 0
    /\ polled' = 0
    /\ sessions' = 0
    /\ releases' = 0
    /\ raised' = FALSE
    /\ answered' = <<>>
    /\ failed' = 0
    /\ UNCHANGED lightVars

\* nothing runs yet: a shell prompt and the config file an earlier run left
Init ==
    /\ file \in Files
    /\ file0 = file
    /\ lights = <<>>
    /\ cmd = "none"
    /\ tokens = <<>>
    /\ resolved = <<>>
    /\ pc = "shell"
    /\ result = <<>>
    /\ errors = <<>>
    /\ exit_code = -1
    /\ sent = <<>>
    /\ listed = <<>>
    /\ interactive = FALSE
    /\ zc = "none"
    /\ listener_lights = <<>>
    /\ count = 0
    /\ queue = <<>>
    /\ inflight = <<>>
    /\ browser_alive = FALSE
    /\ heard = 0
    /\ first_heard = 0
    /\ windows = 0
    /\ polled = 0
    /\ sessions = 0
    /\ releases = 0
    /\ raised = FALSE
    /\ answered = <<>>
    /\ failed = 0
    /\ brightness = 50
    /\ put = NoPut

\* the user runs the program: argparse has filled args
Run(c, t) ==
    /\ pc = "shell"
    /\ Launch(file, c, t)

(***************************************************************************)
(* get_lights with requested lights.                                       *)
(***************************************************************************)
\* get_lights, `if requested_lights:` branch up to the loop
GetLightsExplicit ==
    /\ pc = "main"
    /\ cmd # "find"
    /\ tokens # <<>>
    /\ lights' = maybe_load_lights_from_config(lights, file)
    /\ pc' = "resolving"
    /\ UNCHANGED <<file, file0, cmd, tokens, resolved, result, outputVars, discoveryVars>>
    /\ UNCHANGED lightVars

\* variant: exit_with_help ends the process with status 0
ResolveStep_exit0(toks, done, regs, f) ==
    LET i == Len(done) + 1
        out == TokenOutcome(toks[i], regs)
        items == Append(done, out.light)
    IN IF out.status # "ok"
       THEN [pc |-> "exited", resolved |-> done, lights |-> regs, result |-> <<>>,
             errors |-> <<out.status>>, exit_code |-> 0, file |-> f]
       ELSE IF i < Len(toks)
       THEN [pc |-> "resolving", resolved |-> items, lights |-> regs, result |-> <<>>,
             errors |-> <<>>, exit_code |-> -1, file |-> f]
       ELSE [pc |-> "returned", resolved |-> items, lights |-> items, result |-> items,
             errors |-> <<>>, exit_code |-> -1, file |-> f]

\* variant: the resolved list is also saved to the config file
ResolveStep_save(toks, done, regs, f) ==
    LET i == Len(done) + 1
        out == TokenOutcome(toks[i], regs)
        items == Append(done, out.light)
    IN IF out.status # "ok"
       THEN [pc |-> "exited", resolved |-> done, lights |-> regs, result |-> <<>>,
             errors |-> <<out.status>>, exit_code |-> 1, file |-> f]
       ELSE IF i < Len(toks)
       THEN [pc |-> "resolving", resolved |-> items, lights |-> regs, result |-> <<>>,
             errors |-> <<>>, exit_code |-> -1, file |-> f]
       ELSE [pc |-> "returned", resolved |-> items, lights |-> items, result |-> items,
             errors |-> <<>>, exit_code |-> -1, file |-> SaveLights(f, items)]

\* variant: a light number is looked up in the items resolved so far
ResolveStep_partial(toks, done, regs, f) ==
    LET i == Len(done) + 1
        out == TokenOutcome(toks[i], done)
        items == Append(done, out.light)
    IN IF out.status # "ok"
       THEN [pc |-> "exited", resolved |-> done, lights |-> regs, result |-> <<>>,
             errors |-> <<out.status>>, exit_code |-> 1, file |-> f]
       ELSE IF i < Len(toks)
       THEN [pc |-> "resolving", resolved |-> items, lights |-> regs, result |-> <<>>,
             errors |-> <<>>, exit_code |-> -1, file |-> f]
       ELSE [pc |-> "returned", resolved |-> items, lights |-> items, result |-> items,
             errors |-> <<>>, exit_code |-> -1, file |-> f]

\* The state after one iteration of the loop on item i (and, after the last
\* item, the assignment to the global and the return).
ResolveStep(toks, done, regs, f) ==
    LET i == Len(done) + 1
        out == TokenOutcome(toks[i], regs)
        items == Append(done, out.light)
    IN IF out.status # "ok"
       THEN [pc |-> "exited", resolved |-> done, lights |-> regs, result |-> <<>>,
             errors |-> <<out.status>>, exit_code |-> 1, file |-> f]
       ELSE IF i < Len(toks)
       THEN [pc |-> "resolving", resolved |-> items, lights |-> regs, result |-> <<>>,
             errors |-> <<>>, exit_code |-> -1, file |-> f]
       ELSE [pc |-> "returned", resolved |-> items, lights |-> items, result |-> items,
             errors |-> <<>>, exit_code |-> -1, file |-> f]

ResolveToken ==
    /\ pc = "resolving"
    /\ \E nxt \in {ResolveStep(tokens, resolved, lights, file)} :
          /\ pc' = nxt.pc
          /\ resolved' = nxt.resolved
          /\ lights' = nxt.lights
          /\ result' = nxt.result
          /\ errors' = nxt.errors
          /\ exit_code' = nxt.exit_code
          /\ file' = nxt.file
    /\ UNCHANGED <<file0, cmd, tokens, sent, listed, discoveryVars>>
    /\ UNCHANGED lightVars

(***************************************************************************)
(* get_lights without requested lights, and find_lights.                   *)
(***************************************************************************)
\* variant: the loaded registry is never used
HasLights_never(regs) == FALSE

\* `if lights:` after the load: the registry is returned without searching
HasLights(regs) == regs # <<>>

\* find_lights up to the first time.sleep: Zeroconf(), listener, ServiceBrowser
FindLightsStart(mode) ==
    /\ interactive' = mode
    /\ zc' = "open"
    /\ listener_lights' = <<>>
    /\ count' = 1
    /\ queue' = <<>>
    /\ inflight' = <<>>
    /\ browser_alive' = TRUE
    /\ heard' = 0
    /\ first_heard' = 0
    /\ windows' = 0
    /\ polled' = 0
    /\ sessions' = sessions + 1
    /\ raised' = FALSE
    /\ answered' = <<>>
    /\ failed' = 0
    /\ pc' = "sleep"
    /\ UNCHANGED releases

GetLightsAllCached ==
    /\ pc = "main"
    /\ cmd # "find"
    /\ tokens = <<>>
    /\ HasLights(maybe_load_lights_from_config(lights, file))
    /\ lights' = maybe_load_lights_from_config(lights, file)
    /\ result' = lights'
    /\ pc' = "returned"
    /\ UNCHANGED <<file, file0, cmd, tokens, resolved, outputVars, discoveryVars>>
    /\ UNCHANGED lightVars

\* variant: the search is the fallback of the explicit branch as well
GetLightsAllFind_requested ==
    /\ pc = "main"
    /\ cmd # "find"
    /\ ~HasLights(maybe_load_lights_from_config(lights, file))
    /\ lights' = maybe_load_lights_from_config(lights, file)
    /\ FindLightsStart(FALSE)
    /\ UNCHANGED <<file, file0, cmd, tokens, resolved, result, outputVars>>
    /\ UNCHANGED lightVars

GetLightsAllFind ==
    /\ pc = "main"
    /\ cmd # "find"
    /\ tokens = <<>>
    /\ ~HasLights(maybe_load_lights_from_config(lights, file))
    /\ lights' = maybe_load_lights_from_config(lights, file)
    /\ FindLightsStart(FALSE)
    /\ UNCHANGED <<file, file0, cmd, tokens, resolved, result, outputVars>>
    /\ UNCHANGED lightVars

\* `find` / `search`: args.func( vars( args ) ) passes the (non-empty) args
\* dict as `interactive`, which is truthy
CommandFind ==
    /\ pc = "main"
    /\ cmd = "find"
    /\ FindLightsStart(TRUE)
    /\ UNCHANGED <<file, file0, lights, cmd, tokens, resolved, result, outputVars>>
    /\ UNCHANGED lightVars

\* ServiceBrowser(...) raises: the call sits before the try block
FindLightsBrowseFail ==
    /\ pc = "main"
    /\ \/ cmd = "find"
       \/ tokens = <<>> /\ ~HasLights(maybe_load_lights_from_config(lights, file))
    /\ lights' = IF cmd = "find" THEN lights ELSE maybe_load_lights_from_config(lights, file)
    /\ interactive' = (cmd = "find")
    /\ zc' = "open"
    /\ sessions' = sessions + 1
    /\ pc' = "crashed"
    /\ exit_code' = 1
    /\ UNCHANGED <<file, file0, cmd, tokens, resolved, result, errors, sent, listed,
                   listener_lights, count, queue, inflight, browser_alive, heard,
                   first_heard, windows, polled, releases, raised, answered, failed>>
    /\ UNCHANGED lightVars

\* The browser thread calls add_service for an advertisement as soon as it
\* is free, and works on one advertisement at a time:
\* get_service_info, Light(...), then the request of get_info is on its way.
\* An advertisement that arrives while add_service is busy (or after the
\* thread has died) waits in the browser's queue.
Advertise(dev) ==
    /\ zc = "open"
    /\ pc = "sleep"
    /\ heard < MaxAdverts
    /\ IF browser_alive /\ inflight = <<>>
       THEN inflight' = <<dev>> /\ UNCHANGED queue
       ELSE queue' = Append(queue, dev) /\ UNCHANGED inflight
    /\ heard' = heard + 1
    /\ first_heard' = IF heard = 0 THEN count ELSE first_heard
    /\ UNCHANGED <<file, file0, lights, cmd, tokens, resolved, pc, result, outputVars,
                   interactive, zc, listener_lights, count, browser_alive,
                   windows, polled, sessions, releases, raised, answered, failed>>
    /\ UNCHANGED lightVars

\* the Light add_service appends once get_info( "displayName" ) has answered
FoundLight(dev) == Light(dev.displayName, AdvertLocation(dev))

\* add_service is over: the thread takes the next queued advertisement,
\* unless it died or zeroconf.close() has been called
NextCallback(alive) ==
    IF alive /\ pc = "sleep" /\ queue # <<>>
    THEN inflight' = <<Head(queue)>> /\ queue' = Tail(queue)
    ELSE inflight' = <<>> /\ UNCHANGED queue

\* variant: a light whose location is already in the list is not added again
Accumulate_unique(found, light) ==
    IF \E k \in 1..Len(found) : found[k].location = light.location
    THEN found
    ELSE Append(found, light)

\* self.lights.append( light )
Accumulate(found, light) == Append(found, light)

CallbackAppend ==
    /\ inflight # <<>>
    /\ listener_lights' = Accumulate(listener_lights, FoundLight(inflight[1]))
    /\ NextCallback(browser_alive)
    /\ UNCHANGED <<file, file0, lights, cmd, tokens, resolved, pc, result, outputVars,
                   interactive, zc, count, browser_alive, heard,
                   first_heard, windows, polled, sessions, releases, raised, answered, failed>>
    /\ UNCHANGED lightVars

\* get_info raises inside add_service: nothing is appended; whether the
\* browser thread survives the exception is up to the zeroconf library
CallbackFail ==
    /\ inflight # <<>>
    /\ \E alive \in BOOLEAN :
          /\ browser_alive' = alive
          /\ NextCallback(alive)
    /\ failed' = failed + 1
    /\ UNCHANGED <<file, file0, lights, cmd, tokens, resolved, pc, result, outputVars,
                   interactive, zc, listener_lights, count, heard,
                   first_heard, windows, polled, sessions, releases, raised, answered>>
    /\ UNCHANGED lightVars

\* time.sleep( 5 ) is over, non-interactive branch of the loop body
WindowEndNonInteractive ==
    /\ pc = "sleep"
    /\ ~interactive
    /\ IF NonInteractiveDone(listener_lights, count)
       THEN pc' = "closing" /\ count' = count
       ELSE pc' = "sleep" /\ count' = count + 1
    /\ polled' = Len(listener_lights)
    /\ windows' = windows + 1
    /\ UNCHANGED <<file, file0, lights, cmd, tokens, resolved, result, outputVars,
                   interactive, zc, listener_lights, queue, inflight, browser_alive,
                   heard, first_heard, sessions, releases, raised, answered, failed>>
    /\ UNCHANGED lightVars

\* time.sleep( 5 ) is over, interactive branch: the operator answers the prompt
WindowEndInteractive(answer) ==
    /\ pc = "sleep"
    /\ interactive
    /\ IF InteractiveDone(answer)
       THEN pc' = "closing" /\ count' = count
       ELSE count < MaxWindows /\ pc' = "sleep" /\ count' = count + 1
    /\ polled' = Len(listener_lights)
    /\ windows' = windows + 1
    /\ answered' = answer
    /\ UNCHANGED <<file, file0, lights, cmd, tokens, resolved, result, outputVars,
                   interactive, zc, listener_lights, queue, inflight, browser_alive,
                   heard, first_heard, sessions, releases, raised, failed>>
    /\ UNCHANGED lightVars

\* an exception leaves the try block (KeyboardInterrupt in sleep, EOFError in input)
WaitInterrupted ==
    /\ pc = "sleep"
    /\ raised' = TRUE
    /\ pc' = "closing"
    /\ UNCHANGED <<file, file0, lights, cmd, tokens, resolved, result, outputVars,
                   interactive, zc, listener_lights, count, queue, inflight,
                   browser_alive, heard, first_heard, windows, polled, sessions, releases,
                   answered, failed>>
    /\ UNCHANGED lightVars

\* variant: the file is written whatever was found
ShouldSave_always(found) == TRUE

\* `if listener.lights:` before the save
ShouldSave(found) == found # <<>>

\* The rest of find_lights: finally: zeroconf.close() (which waits for a
\* running callback to finish), the save, the return to the caller.
\* written = the open/write of the config file succeeded;
\* damaged = a failed write had already truncated the file.
FindLightsFinish(written, damaged) ==
    /\ pc = "closing"
    /\ inflight = <<>>
    /\ zc' = "closed"
    /\ releases' = releases + 1
    /\ queue' = <<>>
    /\ browser_alive' = FALSE
    /\ answered' = <<>>
    /\ IF raised
       THEN /\ written /\ ~damaged
            /\ pc' = "crashed" /\ exit_code' = 1
            /\ UNCHANGED <<file, lights, result>>
       ELSE IF ~ShouldSave(listener_lights)
       THEN /\ written /\ ~damaged
            /\ UNCHANGED file
            /\ result' = listener_lights
            /\ IF cmd = "find"
               THEN pc' = "done" /\ exit_code' = 0 /\ UNCHANGED lights
               ELSE pc' = "returned" /\ lights' = listener_lights /\ UNCHANGED exit_code
       ELSE IF written
       THEN /\ ~damaged
            /\ file' = SaveLights(file, listener_lights)
            /\ result' = listener_lights
            /\ IF cmd = "find"
               THEN pc' = "done" /\ exit_code' = 0 /\ UNCHANGED lights
               ELSE pc' = "returned" /\ lights' = listener_lights /\ UNCHANGED exit_code
       ELSE /\ file' = IF damaged THEN BadFile ELSE file
            /\ pc' = "crashed" /\ exit_code' = 1
            /\ UNCHANGED <<lights, result>>
    /\ UNCHANGED <<file0, cmd, tokens, resolved, errors, sent, listed, interactive,
                   listener_lights, count, inflight, heard, first_heard, windows, polled, sessions, raised,
                   failed>>
    /\ UNCHANGED lightVars

(***************************************************************************)
(* The command bodies after get_lights has returned.                       *)
(***************************************************************************)
\* variant: the lines carry the 0-based index of enumerate
ListLines_zeroBased(ls) ==
    [k \in 1..Len(ls) |-> [index |-> k - 1, name |-> ls[k].name, location |-> ls[k].location]]

\* command_list: one line "[index+1] name (location)" per light
ListLines(ls) == [k \in 1..Len(ls) |-> [index |-> k, name |-> ls[k].name, location |-> ls[k].location]]

\* command_on: one PUT per light, in order
RequestsTo(ls) == [k \in 1..Len(ls) |-> ls[k].location]

\* the items the loop of a command body gets through: light.name,
\* light.location and light.set_status raise AttributeError on the first
\* item that is no Light
LightsBefore(ls) ==
    IF \A k \in 1..Len(ls) : IsLight(ls[k]) THEN ls
    ELSE SubSeq(ls, 1, (CHOOSE k \in 1..Len(ls) :
                          ~IsLight(ls[k]) /\ \A j \in 1..(k - 1) : IsLight(ls[j])) - 1)

\* the command body is over: pc "done", with exit status 1 when it raised
CommandRun ==
    /\ pc = "returned"
    /\ IF cmd = "list"
       THEN listed' = ListLines(LightsBefore(result)) /\ UNCHANGED sent
       ELSE sent' = RequestsTo(LightsBefore(result)) /\ UNCHANGED listed
    /\ pc' = "done"
    /\ exit_code' = IF LightsBefore(result) = result THEN 0 ELSE 1
    /\ UNCHANGED <<file, file0, lights, cmd, tokens, resolved, result, errors, discoveryVars>>
    /\ UNCHANGED lightVars

\* the process is gone; only the config file survives
ProcessEnd ==
    /\ pc \in {"done", "exited", "crashed"}
    /\ Launch(file, "none", <<>>)

\* some command line is typed at the prompt
Invoke ==
    /\ pc = "shell"
    /\ \E c \in Commands :
          \E t \in (IF c = "find" THEN {<<>>} ELSE TokenLists) : Run(c, t)

Next ==
    \/ Invoke
    \/ GetLightsExplicit
    \/ ResolveToken
    \/ GetLightsAllCached
    \/ GetLightsAllFind
    \/ CommandFind
    \/ FindLightsBrowseFail
    \/ \E dev \in Devices : Advertise(dev)
    \/ CallbackAppend
    \/ CallbackFail
    \/ WindowEndNonInteractive
    \/ \E answer \in Answers : WindowEndInteractive(answer)
    \/ WaitInterrupted
    \/ \E written \in BOOLEAN, damaged \in BOOLEAN : FindLightsFinish(written, damaged)
    \/ CommandRun
    \/ ProcessEnd

Spec == Init /\ [][Next]_vars

TypeOK ==
    /\ pc \in {"shell", "main", "resolving", "sleep", "closing", "returned", "done", "exited", "crashed"}
    /\ cmd \in Commands \cup {"none"}
    /\ zc \in {"none", "open", "closed"}
    /\ Len(resolved) <= Len(tokens)
    /\ count \in 0..MaxWindows
    /\ heard \in 0..MaxAdverts
    /\ answered \in Answers
    /\ failed \in 0..MaxAdverts

(***************************************************************************)
(* The brightness and temperature commands, on one light.                  *)
(***************************************************************************)
\* round( num / den ) of Python 3, num and den positive: a tie goes to the
\* even neighbour
PyRound(num, den) ==
    LET q == num \div den
        r == num % den
    IN IF 2 * r < den THEN q
       ELSE IF 2 * r > den THEN q + 1
       ELSE IF q % 2 = 0 THEN q ELSE q + 1

kelvin_to_temperature(kelvin) == PyRound(1000000, kelvin)

\* int( text ) after the suffix has been trimmed; False (which counts as 0)
\* when the text is no integer
brightness_from_str(t) ==
    LET body == IF t[Len(t)] = "%" THEN SubSeq(t, 1, Len(t) - 1) ELSE t
    IN IF IntParse(body).ok THEN IntParse(body).val ELSE 0

is_valid_brightness(v) == ~(v > 100 \/ v < 3)

\* type= of -b/--brightness: the int, or an argparse error
brightness_value(t) ==
    [ok |-> is_valid_brightness(brightness_from_str(t)), val |-> brightness_from_str(t)]

temperature_from_str(t) ==
    LET body == IF t[Len(t)] = "k" THEN SubSeq(t, 1, Len(t) - 1) ELSE t
    IN IF IntParse(body).ok THEN IntParse(body).val ELSE 0

is_valid_temperature_kelvin(v) == ~(v > 7000 \/ v < 2900 \/ v % 50 # 0)

\* type= of -t/--temperature: the int, or an argparse error
temperature_value(t) ==
    [ok |-> is_valid_temperature_kelvin(temperature_from_str(t)),
     val |-> temperature_from_str(t)]

\* status['brightness'] and status['temperature'] as set_status fills them
\* from int arguments: brightness as it is, temperature converted when it is
\* at least 2900
StatusBrightness(v) == v
StatusTemperature(v) == IF v >= 2900 THEN kelvin_to_temperature(v) ELSE v

\* The brightness of the light after a PUT that carries brightness v. What the
\* firmware does with a value outside 3..100 is not in this repository: it
\* may refuse the request or clamp the value.
DeviceBrightness(cur, field) ==
    IF field = <<>> THEN {cur}
    ELSE IF field[1] >= 3 /\ field[1] <= 100 THEN {field[1]}
    ELSE {cur, IF field[1] < 3 THEN 3 ELSE 100}

\* values of -b
\*   3, 100, 50%, 2, 101, x
BrightnessArgs ==
    { <<"3">>,
      <<"1", "0", "0">>,
      <<"5", "0", "%">>,
      <<"2">>,
      <<"1", "0", "1">>,
      <<"x">> }

\* values of -t
\*   2900, 2950, 3200, 3400k, 5000, 7000, 2850, 7050, 3425, 344, x
TemperatureArgs ==
    { <<"2", "9", "0", "0">>,
      <<"2", "9", "5", "0">>,
      <<"3", "2", "0", "0">>,
      <<"3", "4", "0", "0", "k">>,
      <<"5", "0", "0", "0">>,
      <<"7", "0", "0", "0">>,
      <<"2", "8", "5", "0">>,
      <<"7", "0", "5", "0">>,
      <<"3", "4", "2", "5">>,
      <<"3", "4", "4">>,
      <<"x">> }

\* every variable of the command-line process, which these commands leave alone
processVars == <<file, file0, lights, cmd, tokens, resolved, pc, result, errors, exit_code,
                 sent, listed, interactive, zc, listener_lights, count, queue, inflight,
                 browser_alive, heard, first_heard, windows, polled, sessions, releases,
                 raised, answered, failed>>

\* a light at some valid brightness, nothing sent to it yet
InitLight ==
    /\ file = NoFile
    /\ file0 = file
    /\ lights = <<>>
    /\ cmd = "none"
    /\ tokens = <<>>
    /\ resolved = <<>>
    /\ pc = "shell"
    /\ result = <<>>
    /\ errors = <<>>
    /\ exit_code = -1
    /\ sent = <<>>
    /\ listed = <<>>
    /\ interactive = FALSE
    /\ zc = "none"
    /\ listener_lights = <<>>
    /\ count = 0
    /\ queue = <<>>
    /\ inflight = <<>>
    /\ browser_alive = FALSE
    /\ heard = 0
    /\ first_heard = 0
    /\ windows = 0
    /\ polled = 0
    /\ sessions = 0
    /\ releases = 0
    /\ raised = FALSE
    /\ answered = <<>>
    /\ failed = 0
    /\ brightness \in 3..100
    /\ put = NoPut

\* `set -b b -t t` on the light (either option may be left out): argparse
\* converts the options, set_status builds and sends the request
CommandSet(b, t) ==
    /\ b # <<>> \/ t # <<>>
    /\ IF (b # <<>> /\ ~brightness_value(b).ok) \/ (t # <<>> /\ ~temperature_value(t).ok)
       THEN put' = NoPut /\ UNCHANGED brightness
       ELSE /\ put' = [brightness |-> IF b = <<>> THEN <<>>
                                      ELSE <<StatusBrightness(brightness_value(b).val)>>,
                       temperature |-> IF t = <<>> THEN <<>>
                                       ELSE <<StatusTemperature(temperature_value(t).val)>>]
            /\ brightness' \in DeviceBrightness(brightness, put'.brightness)
    /\ UNCHANGED processVars

\* command_brighter: get_status( 'brightness' ) + 5 goes to set_status
CommandBrighter ==
    /\ put' = [brightness |-> <<StatusBrightness(brightness + 5)>>, temperature |-> <<>>]
    /\ brightness' \in DeviceBrightness(brightness, put'.brightness)
    /\ UNCHANGED processVars

\* command_dimmer: get_status( 'brightness' ) - 5 goes to set_status
CommandDimmer ==
    /\ put' = [brightness |-> <<StatusBrightness(brightness - 5)>>, temperature |-> <<>>]
    /\ brightness' \in DeviceBrightness(brightness, put'.brightness)
    /\ UNCHANGED processVars

NextLight ==
    \/ \E b \in BrightnessArgs \cup {<<>>}, t \in TemperatureArgs \cup {<<>>} : CommandSet(b, t)
    \/ CommandBrighter
    \/ CommandDimmer

SpecLight == InitLight /\ [][NextLight]_vars

(***************************************************************************)
(* Vocabulary of the properties.                                           *)
(***************************************************************************)
\* the registry a fresh process loads from the file f
Registry(f) == IF f.kind = "list"
               THEN [k \in 1..Len(f.entries) |->
                       IF "light" \in DOMAIN f.entries[k]
                       THEN [name |-> f.entries[k].name, location |-> f.entries[k].light]
                       ELSE f.entries[k]]
               ELSE <<>>

Explicit == cmd \in {"list", "on"} /\ tokens # <<>>
Implicit == cmd \in {"list", "on"} /\ tokens = <<>>
Returned == pc \in {"returned", "done"}
Finished == pc \in {"done", "exited", "crashed"}

\* the decimal text str(k) of an integer k
IsStrOfInt(t) == IntParse(t).ok /\ IntToStr(IntParse(t).val) = t

LastIndex(t, c) == CHOOSE k \in 1..Len(t) : t[k] = c /\ \A j \in (k + 1)..Len(t) : t[j] # c

\* t reads as "h:p" with h an IPv4 or IPv6 literal and p = str of a port in 1..65535
IsHostPort(t) ==
    /\ Contains(t, ":")
    /\ LET h == SubSeq(t, 1, LastIndex(t, ":") - 1)
           p == SubSeq(t, LastIndex(t, ":") + 1, Len(t))
       IN /\ IPv4Parse(h).ok \/ IPv6Parse(h).ok
          /\ AllDigits(p) /\ NatToStr(DecVal(p)) = p
          /\ DecVal(p) >= 1 /\ DecVal(p) <= 65535
HostOf(t) == SubSeq(t, 1, LastIndex(t, ":") - 1)
PortOf(t) == SubSeq(t, LastIndex(t, ":") + 1, Len(t))

\* t has no colon and is an IP address
IsBareAddress(t) == ~Contains(t, ":") /\ (IPv4Parse(t).ok \/ IPv6Parse(t).ok)

\* the part of t before / after its first colon
HostPart(t) == IF Contains(t, ":") THEN SubSeq(t, 1, FirstIndex(t, ":") - 1) ELSE t
PortPart(t) == IF Contains(t, ":") THEN SubSeq(t, FirstIndex(t, ":") + 1, Len(t)) ELSE <<>>

\* t is an in-range light number of the registry regs
InRange(t, regs) == IntParse(t).ok /\ IntParse(t).val >= 1 /\ IntParse(t).val <= Len(regs)

\* t is a valid address reference: IP or IP:PORT with an integer port
IsAddressRef(t) ==
    /\ IPv4Parse(HostPart(t)).ok \/ IPv6Parse(HostPart(t)).ok
    /\ PortPart(t) = <<>> \/ IntParse(PortPart(t)).ok

\* t has a valid IP before its first colon and a non-empty port that is no integer
HasBadPort(t) ==
    /\ IPv4Parse(HostPart(t)).ok \/ IPv6Parse(HostPart(t)).ok
    /\ PortPart(t) # <<>>
    /\ ~IntParse(PortPart(t)).ok

DefaultPortText == <<":", "9", "1", "2", "3">>
DeskLocation == <<"1", "0", ".", "0", ".", "0", ".", "5", ":", "9", "1", "2", "3">>
DeskFile == [kind |-> "list", entries |-> <<[name |-> DeskName, light |-> DeskLocation]>>]

\* t is "", "y", "ye" or "yes" in any mix of upper and lower case
IsAffirmative(t) ==
    /\ Len(t) <= 3
    /\ \A k \in 1..Len(t) : t[k] \in {<<"y", "e", "s">>[k], <<"Y", "E", "S">>[k]}

\* f is a JSON list of {"name": ..., "light": ...} objects
IsRegistryFile(f) ==
    /\ f.kind = "list"
    /\ \A k \in 1..Len(f.entries) : DOMAIN f.entries[k] = {"name", "light"}

\* x is an endpoint: an object with a name and a location
IsEndpoint(x) == DOMAIN x = {"name", "location"}

\* the JSON list that holds exactly the lights ls, in order
FileOf(ls) == [kind |-> "list", entries |-> [k \in 1..Len(ls) |-> [name |-> ls[k].name, light |-> ls[k].location]]]

(***************************************************************************)
(* C1: get_lights([str(k)]) on a loaded registry of length N returns       *)
(* exactly the entry at position k-1 when 1 <= k <= N, and otherwise       *)
(* aborts with the "Invalid light specified" error.                        *)
(***************************************************************************)
C1_LightNumber ==
    (Explicit /\ Len(tokens) = 1 /\ IsStrOfInt(tokens[1]) /\ pc # "main" /\ pc # "resolving")
    => LET k == IntParse(tokens[1]).val
           reg == Registry(file0)
       IN IF 1 <= k /\ k <= Len(reg)
          THEN Returned /\ result = <<reg[k]>> /\ errors = <<>>
          ELSE pc = "exited" /\ errors = <<"InvalidAddress">> /\ exit_code = 1 /\ result = <<>>

C1_Witness ==
    /\ Explicit /\ pc = "returned"
    /\ tokens = << <<"2">> >>
    /\ Len(Registry(file0)) = 2
    /\ result = <<Registry(file0)[2]>>

(***************************************************************************)
(* C2: resolving a token "h:p", h a valid IPv4 or IPv6 literal and         *)
(* 1 <= p <= 65535, succeeds with location "h:p" (h canonical) and name    *)
(* "h:p".                                                                  *)
(***************************************************************************)
C2_HostPort ==
    (Explicit /\ Len(tokens) = 1 /\ IsHostPort(tokens[1]) /\ pc # "main" /\ pc # "resolving")
    => /\ Returned
       /\ result = <<[name |-> tokens[1],
                      location |-> ip_str(ip_address(HostOf(tokens[1]))) \o <<":">> \o PortOf(tokens[1])]>>

(***************************************************************************)
(* C3: a bare address token h (no colon, valid IP) resolves to the         *)
(* endpoint with location h:9123 and name h.                               *)
(***************************************************************************)
C3_BareAddress ==
    Explicit =>
      /\ \A k \in 1..Len(resolved) :
            IsBareAddress(tokens[k])
            => resolved[k] = [name |-> tokens[k], location |-> tokens[k] \o DefaultPortText]
      /\ (pc = "exited" => ~IsBareAddress(tokens[Len(resolved) + 1]))
      /\ (Returned => result = resolved)

C3_Witness ==
    /\ Explicit /\ pc = "returned"
    /\ \E k \in 1..Len(tokens) :
          /\ IsBareAddress(tokens[k])
          /\ result[k].location = tokens[k] \o DefaultPortText
          /\ result[k].name = tokens[k]

(***************************************************************************)
(* C4: if any token of the list is neither an in-range light number nor a  *)
(* valid address reference, the command exits non-zero, no request is sent *)
(* to any light, the global registry is never a partial result and the     *)
(* file is unchanged.                                                      *)
(***************************************************************************)
C4_FailFast ==
    (Explicit /\ \E k \in 1..Len(tokens) :
                    ~InRange(tokens[k], Registry(file0)) /\ ~IsAddressRef(tokens[k]))
    => /\ ~Returned
       /\ sent = <<>>
       /\ listed = <<>>
       /\ lights \in {<<>>, Registry(file0)}
       /\ file = file0
       /\ (pc \notin {"main", "resolving"} => pc = "exited" /\ exit_code = 1)
       /\ exit_code # 0

C4_Witness ==
    /\ Explicit /\ pc = "exited"
    /\ Len(resolved) >= 1
    /\ sent = <<>>
    /\ exit_code = 1

(***************************************************************************)
(* C5: a token with a valid IP before the colon and a non-empty port that  *)
(* is not an integer fails with the InvalidPort error only, exit status    *)
(* non-zero; the InvalidAddress error is not reported for it.              *)
(***************************************************************************)
C5_InvalidPort ==
    Explicit =>
      /\ \A k \in 1..Len(resolved) : ~HasBadPort(tokens[k])
      /\ (pc = "exited" /\ HasBadPort(tokens[Len(resolved) + 1]))
         => errors = <<"InvalidPort">> /\ exit_code = 1

C5_Witness ==
    /\ Explicit /\ pc = "exited"
    /\ HasBadPort(tokens[Len(resolved) + 1])
    /\ errors = <<"InvalidPort">>

(***************************************************************************)
(* C6: resolving explicit references never writes the config file; with    *)
(* the file holding only Desk at 10.0.0.5:9123 and --light 1, the Desk     *)
(* endpoint is returned unchanged.                                         *)
(***************************************************************************)
C6_NoWrite ==
    Explicit =>
      /\ file = file0
      /\ (file0 = DeskFile /\ tokens = << <<"1">> >> /\ Returned)
         => result = <<[name |-> DeskName, location |-> DeskLocation]>>

C6_Witness ==
    /\ Explicit /\ pc = "returned"
    /\ file0 = DeskFile
    /\ tokens = << <<"1">> >>
    /\ file = DeskFile
    /\ result[1].name = DeskName

(***************************************************************************)
(* C7 as stated: whenever explicit references are resolved, the whole      *)
(* config file is replaced with the newly resolved sequence, just as when  *)
(* a discovery session succeeds.                                           *)
(***************************************************************************)
C7_FileReplacedByResolver ==
    /\ (Explicit /\ Returned) => file = FileOf(result)
    /\ (sessions = 1 /\ Returned /\ listener_lights # <<>>) => file = FileOf(listener_lights)

(***************************************************************************)
(* C7 amended: resolving explicit references replaces only the global      *)
(* registry with the resolved sequence and leaves the config file as it    *)
(* was; the file is replaced as a whole, holding exactly the found         *)
(* sequence, when a discovery session that found lights returns.           *)
(***************************************************************************)
C7_RegistryReplacedFileKept ==
    /\ (Explicit /\ Returned)
       => /\ lights = result
          /\ Len(result) = Len(tokens)
          /\ file = file0
    /\ (sessions = 1 /\ Returned /\ listener_lights # <<>>) => file = FileOf(listener_lights)

C7_Witness ==
    /\ Explicit /\ pc = "returned"
    /\ lights = result
    /\ file = file0
    /\ file # FileOf(result)

(***************************************************************************)
(* C8: get_lights without references returns a non-empty loaded registry   *)
(* as it is, starting no discovery session and writing nothing; with an    *)
(* empty registry it runs exactly one non-interactive discovery session    *)
(* whose result is returned and becomes the global registry.               *)
(***************************************************************************)
C8_AllLights ==
    (Implicit /\ pc # "main")
    => IF Registry(file0) # <<>>
       THEN /\ Returned
            /\ result = Registry(file0)
            /\ lights = Registry(file0)
            /\ sessions = 0
            /\ zc = "none"
            /\ file = file0
       ELSE /\ sessions = 1
            /\ ~interactive
            /\ Returned => (result = listener_lights /\ lights = result)

C8_Witness ==
    /\ Implicit /\ pc = "returned"
    /\ Registry(file0) = <<>>
    /\ sessions = 1
    /\ result # <<>>
    /\ lights = result

(***************************************************************************)
(* C9: a non-interactive discovery session that receives no advertisement  *)
(* ends after exactly 3 wait windows, returns an empty sequence and leaves *)
(* the config file untouched.                                              *)
(***************************************************************************)
C9_ThreeWindows ==
    (sessions = 1 /\ ~interactive /\ heard = 0 /\ ~raised)
    => /\ pc = "sleep" => (count <= 3 /\ windows = count - 1)
       /\ pc = "closing" => (count = 3 /\ windows = 3)
       /\ Returned => (count = 3 /\ windows = 3 /\ result = <<>> /\ file = file0)

C9_Witness ==
    /\ sessions = 1 /\ ~interactive /\ heard = 0 /\ ~raised
    /\ pc = "returned"
    /\ windows = 3
    /\ result = <<>>
    /\ file = file0

(***************************************************************************)
(* C10: a non-interactive discovery session that receives an advertisement *)
(* during the first wait window ends at the end of that window; it ends at *)
(* the first window at whose end the accumulator is non-empty, and within  *)
(* at most 3 windows.                                                      *)
(***************************************************************************)
C10_EndsAfterFirstWindow ==
    (sessions = 1 /\ ~interactive /\ ~raised)
    => /\ (pc \in {"closing", "returned", "done"} /\ first_heard = 1) => windows = 1
       /\ (pc \in {"closing", "returned", "done"}) => (windows <= 3 /\ (polled > 0 \/ windows = 3))
       /\ (pc = "sleep" /\ windows > 0) => polled = 0

(***************************************************************************)
(* C11: an interactive discovery session ends after a wait window exactly  *)
(* when the answer to that window's prompt is, ignoring case, one of "",   *)
(* "y", "ye", "yes"; after any other answer it waits for another window,   *)
(* whatever the number of windows elapsed and of lights found.             *)
(***************************************************************************)
C11_InteractiveEnd ==
    (sessions = 1 /\ interactive /\ ~raised /\ windows > 0 /\ zc = "open")
    => /\ pc \in {"sleep", "closing"}
       /\ pc = "closing" <=> IsAffirmative(answered)

C11_Witness ==
    /\ sessions = 1 /\ interactive /\ ~raised
    /\ pc = "sleep"
    /\ windows >= MaxTries
    /\ listener_lights # <<>>
    /\ ~IsAffirmative(answered)

(***************************************************************************)
(* C12: on every way out of a discovery session that has created its       *)
(* Zeroconf instance (normal end in either mode, an exception in the wait  *)
(* loop or prompt, a failure while starting the service browser), the      *)
(* instance is closed exactly once: never zero times, never twice.         *)
(***************************************************************************)
C12_ReleasedOnce ==
    /\ releases <= sessions
    /\ (sessions = 1 /\ pc \in {"returned", "done", "crashed"}) => (releases = 1 /\ zc = "closed")

(***************************************************************************)
(* C13: when a discovery session returns with a non-empty accumulator, the *)
(* config file holds exactly the returned sequence, in order, and nothing  *)
(* of its prior content; when the session ends with an empty accumulator   *)
(* the file is as it was.                                                  *)
(***************************************************************************)
C13_SaveReplacesFile ==
    sessions = 1
    => /\ (zc = "closed" /\ listener_lights = <<>>) => file = file0
       /\ (Returned /\ listener_lights # <<>>)
          => (result = listener_lights /\ file = FileOf(result))

C13_Witness ==
    /\ sessions = 1 /\ Returned
    /\ Len(result) = 1
    /\ Len(Registry(file0)) = 2
    /\ \A k \in 1..2 : Registry(file0)[k] # result[1]
    /\ file = FileOf(result)

(***************************************************************************)
(* C14: loading the registry never raises, and when the file is missing,   *)
(* unreadable, not JSON, or JSON that is not a list of {name, light}       *)
(* objects, the in-memory registry is left an empty sequence; after the    *)
(* load every element of the in-memory registry is an endpoint.            *)
(***************************************************************************)
C14_LoadedRegistry ==
    (cmd \in {"list", "on"} /\ pc \notin {"shell", "main"})
    => /\ \A k \in 1..Len(lights) : IsEndpoint(lights[k])
       /\ (pc = "resolving" /\ ~IsRegistryFile(file0)) => lights = <<>>

(***************************************************************************)
(* C15: save followed by load is the identity: the file a discovery        *)
(* session has just written loads, in a fresh process, as a sequence of    *)
(* the same length whose i-th element has the name and the location of the *)
(* i-th saved element; the key "light" of the file maps back to location.  *)
(***************************************************************************)
C15_SaveLoadIdentity ==
    /\ (sessions = 1 /\ Returned /\ result # <<>>)
       => LET loaded == maybe_load_lights_from_config(<<>>, file)
          IN /\ Len(loaded) = Len(result)
             /\ \A k \in 1..Len(result) :
                   /\ loaded[k].name = result[k].name
                   /\ loaded[k].location = result[k].location
    /\ (cmd \in {"list", "on"} /\ pc = "resolving" /\ IsRegistryFile(file0))
       => /\ Len(lights) = Len(file0.entries)
          /\ \A k \in 1..Len(lights) :
                /\ lights[k].name = file0.entries[k].name
                /\ lights[k].location = file0.entries[k].light

C15_Witness ==
    /\ sessions = 1 /\ Returned
    /\ Len(result) = 2
    /\ result[1] # result[2]
    /\ maybe_load_lights_from_config(<<>>, file) = result

(***************************************************************************)
(* C16: when writing the config file fails at the end of a discovery       *)
(* session that found a light, the command does not die of it: the         *)
(* session still returns the discovered sequence to its caller.            *)
(***************************************************************************)
C16_WriteFailureNotFatal ==
    (sessions = 1 /\ ~raised /\ zc = "closed" /\ listener_lights # <<>>)
    => /\ Returned
       /\ result = listener_lights

(***************************************************************************)
(* C17: an advertisement whose info query fails or brings no usable data   *)
(* is a soft failure of that device only: the device is not added to the   *)
(* accumulator, the session goes on, and the other advertisements, before  *)
(* or after it, are still taken into the accumulator.                      *)
(***************************************************************************)
C17_SoftFailure ==
    sessions = 1
    => /\ \A k \in 1..Len(listener_lights) : listener_lights[k].name # None
       /\ (pc = "sleep" /\ queue # <<>>) => inflight # <<>>

(***************************************************************************)
(* C18: when the termination decision of a wait window is evaluated, every *)
(* advertisement that arrived during the window is already in the          *)
(* accumulator: none is still waiting for, or inside, its callback.        *)
(***************************************************************************)
C18_CapturedBeforeDecision ==
    [][(windows' = windows + 1) => (inflight = <<>> /\ queue = <<>>)]_vars

(***************************************************************************)
(* C19: every endpoint get_lights returns (built from an address token,    *)
(* taken from the registry loaded from the file, or found by discovery)    *)
(* has a location that reads as a valid IP address, ':' and a port; so     *)
(* does every location a device request is issued to.                      *)
(***************************************************************************)
C19_FullyQualified ==
    /\ (cmd \in {"list", "on"} /\ Returned)
       => \A k \in 1..Len(result) :
             IsEndpoint(result[k]) => IsHostPort(result[k].location)
    /\ \A k \in 1..Len(sent) : IsHostPort(sent[k])

(***************************************************************************)
(* C20: the port of every endpoint the resolver builds from an address     *)
(* reference is a positive integer; a token whose port part reads as zero  *)
(* or as a negative integer is not turned into an endpoint.                *)
(***************************************************************************)
C20_PositivePort ==
    Explicit
    => \A k \in 1..Len(resolved) :
          IsAddressRef(tokens[k])
          => /\ IntParse(PortOf(resolved[k].location)).ok
             /\ IntParse(PortOf(resolved[k].location)).val > 0

(***************************************************************************)
(* C21: after explicit references have been resolved, the global registry  *)
(* is the returned sequence, and every light number of the call was looked *)
(* up in the registry as loaded before the call, never in the partly built *)
(* result: registry [A, B] with ['2', '1'] gives [B, A], with ['1', '1']   *)
(* gives [A, A].                                                           *)
(***************************************************************************)
C21_LookupInLoadedRegistry ==
    (Explicit /\ Returned)
    => /\ lights = result
       /\ Len(result) = Len(tokens)
       /\ \A k \in 1..Len(tokens) :
             InRange(tokens[k], Registry(file0))
             => result[k] = Registry(file0)[IntParse(tokens[k]).val]

C21_Witness ==
    /\ Explicit /\ pc = "returned"
    /\ tokens = << <<"2">>, <<"1">> >>
    /\ Len(Registry(file0)) = 2
    /\ Registry(file0)[1] # Registry(file0)[2]
    /\ result = <<Registry(file0)[2], Registry(file0)[1]>>
    /\ lights = result

(***************************************************************************)
(* C22: the accumulator of a discovery session holds one entry for each    *)
(* advertisement whose callback succeeded, in the order the callbacks ran, *)
(* with no de-duplication: its length is the number of advertisements      *)
(* received minus those that failed or are still pending, every change of  *)
(* it appends one entry at its end, and a device that advertises twice is  *)
(* twice in the returned sequence and in the written file.                 *)
(***************************************************************************)
C22_NoDeduplication ==
    /\ [](sessions = 1
          => /\ zc = "open"
                => Len(listener_lights) = heard - failed - Len(queue) - Len(inflight)
             /\ Returned
                => /\ result = listener_lights
                   /\ result # <<>> => file = FileOf(result))
    /\ [][(listener_lights' # listener_lights /\ sessions' = sessions)
          => /\ inflight # <<>>
             /\ Len(listener_lights') = Len(listener_lights) + 1
             /\ SubSeq(listener_lights', 1, Len(listener_lights)) = listener_lights
             /\ listener_lights'[Len(listener_lights')].name = inflight[1].displayName]_vars

C22_Witness ==
    /\ sessions = 1 /\ Returned
    /\ heard = 2
    /\ Len(result) = 2
    /\ result[1] = result[2]
    /\ file = FileOf(result)

(***************************************************************************)
(* C23: for every Kelvin value the temperature option of the set command   *)
(* accepts (2900 to 7000 in steps of 50), the temperature that set_status  *)
(* sends to the light lies in 143..344.                                    *)
(***************************************************************************)
C23_TemperatureInRange ==
    put.temperature # <<>> => (143 <= put.temperature[1] /\ put.temperature[1] <= 344)

(***************************************************************************)
(* C24: starting from a light whose brightness is in 3..100, no request of *)
(* a brighter, dimmer or set command carries a brightness below 3 or above *)
(* 100.                                                                    *)
(***************************************************************************)
C24_BrightnessInRange ==
    put.brightness # <<>> => (3 <= put.brightness[1] /\ put.brightness[1] <= 100)

(***************************************************************************)
(* C25: resolving a non-empty list of explicit references never starts a   *)
(* discovery session, even with the file missing or the loaded registry    *)
(* empty: no Zeroconf instance is created, no window is waited for, and    *)
(* the call either returns endpoints built from the tokens or ends with a  *)
(* resolution error.                                                       *)
(***************************************************************************)
C25_NoDiscoveryForExplicit ==
    Explicit
    => /\ sessions = 0 /\ zc = "none" /\ releases = 0
       /\ count = 0 /\ windows = 0 /\ heard = 0 /\ listener_lights = <<>>
       /\ pc \in {"main", "resolving", "returned", "done", "exited"}
       /\ pc = "exited" => (errors # <<>> /\ exit_code = 1)
       /\ (Returned /\ Registry(file0) = <<>>)
          => /\ Len(result) = Len(tokens)
             /\ \A k \in 1..Len(tokens) : result[k].name = tokens[k]

C25_Witness ==
    /\ Explicit /\ pc = "returned"
    /\ file0 = NoFile
    /\ sessions = 0 /\ zc = "none"
    /\ Len(result) = 2
    /\ result[1].name = tokens[1]

(***************************************************************************)
(* C26: the index the list command prints and the light number agree       *)
(* across invocations: when list without --light has printed a light at    *)
(* index k (lights from the file, or from the search list has just run and *)
(* saved), an invocation with --light k on the file as it now is resolves  *)
(* to the endpoint with that name and that location.                       *)
(***************************************************************************)
C26_ListIndexIsLightNumber ==
    (cmd = "list" /\ tokens = <<>> /\ pc = "done")
    => \A j \in 1..Len(listed) :
          LET following == ResolveStep(<<NatToStr(listed[j].index)>>, <<>>,
                                       maybe_load_lights_from_config(<<>>, file), file)
          IN /\ following.pc = "returned"
             /\ Len(following.result) = 1
             /\ following.result[1].name = listed[j].name
             /\ following.result[1].location = listed[j].location

C26_Witness ==
    /\ cmd = "list" /\ tokens = <<>> /\ pc = "done"
    /\ sessions = 1
    /\ Len(listed) = 2
    /\ listed[2].index = 2
    /\ listed[1].location # listed[2].location
    /\ TokenOutcome(<<"2">>, maybe_load_lights_from_config(<<>>, file)).light.location
          = listed[2].location

====
